---- MODULE Spec2Model ----
(***************************************************************************)
(* Model of the benchmark harness bench.py of GamesmanNova.                *)
(*                                                                         *)
(* The script is one sequential top-level program.  Its state is the       *)
(* process environment (os.environ), the parsed arguments, the             *)
(* measurements dict, the loop position, and the output file under         *)
(* dev/bench/.  Every subprocess.run call is recorded in the history       *)
(* variable calls together with the environment the child inherits.        *)
(***************************************************************************)
EXTENDS Integers, Sequences, FiniteSets, TLC

(* ----------------------------- bounds ---------------------------------- *)

\* --samples is type=int: any integer parses.  The model draws it from
\* (0 - MaxNegSamples) .. MaxSamples.
MaxSamples == 2
MaxNegSamples == 1

\* Values time.time() - start can take (opaque floats; two distinct values
\* are enough to tell the order of the samples apart).
Durations == {1, 2}

\* Return codes of the child process: success, failure, killed by a signal.
ExitCodes == {0, 1, 0 - 11}

\* Values of --note (the first one is the default of the parser).
DefaultNote == "No note."
Notes == {DefaultNote, "baseline v1"}

(* ------------------------ program constants ---------------------------- *)

variants == << "2-10000-1-2", "2-10000-3-5-7-11", "4-10000-1-2", "4-10000-3-5-7-11" >>

HeavyVariant == "2-100000-1-2"

DefaultDb == "solutions.db"

BenchDb == "bench.db"

\* The values DATABASE may have when the script starts (it may also be unset).
EnvValues == {"prod.db", BenchDb}

\* A Python name that has not been assigned yet.
Unbound == "<unbound>"

NoError == [type |-> "none", at |-> "none"]

(* --------------------------- os.environ -------------------------------- *)

\* os.environ is a function from the names that are set to their values.
EmptyEnviron == [k \in {} |-> ""]

InitialEnvirons == {EmptyEnviron} \cup {[k \in {"DATABASE"} |-> s] : s \in EnvValues}

environ_get(env, key, default) == IF key \in DOMAIN env THEN env[key] ELSE default

environ_set(env, key, val) == [k \in (DOMAIN env) \cup {key} |-> IF k = key THEN val ELSE env[k]]

(* ----------------------------- dict ------------------------------------ *)

\* A Python dict is a sequence of <<key, value>> pairs in insertion order.
DictKeys(d) == {d[j][1] : j \in 1..Len(d)}

DictIndex(d, k) == CHOOSE j \in 1..Len(d) : d[j][1] = k

DictGet(d, k) == d[DictIndex(d, k)][2]

DictSet(d, k, val) ==
    IF k \in DictKeys(d)
    THEN [d EXCEPT ![DictIndex(d, k)] = <<k, val>>]
    ELSE Append(d, <<k, val>>)

\* json.dump writes the members of the dict in insertion order.
JsonDump(d) == [j \in 1..Len(d) |-> [key |-> d[j][1], value |-> d[j][2]]]

JsonKeys(t) == {t[j].key : j \in 1..Len(t)}

JsonValue(t, k) == t[CHOOSE j \in 1..Len(t) : t[j].key = k].value

(* --------------------------- subprocesses ------------------------------ *)

\* One entry of the history of subprocess.run calls: the command, the variant
\* it was given, the environment the child inherited and the wall-clock time
\* the script measured around the call (0 when the call is not timed).
Call(cmd, variant, env, dur) == [cmd |-> cmd, variant |-> variant, env |-> env, elapsed |-> dur]

init_bench_database(log, env) == Append(log, Call("sqlite3 bench.db VACUUM", "", env, 0))

solve_zero_by(log, variant, env, dur) == Append(log, Call("cargo run", variant, env, dur))

flamegraph(log, variant, env) == Append(log, Call("cargo flamegraph", variant, env, 0))

(* ------------------------------ state ---------------------------------- *)

VARIABLES
    args,          \* the parsed arguments: note, samples, profile
    environ0,      \* os.environ when the script started (history)
    environ,       \* os.environ
    envWrites,     \* number of assignments to os.environ["DATABASE"] (history)
    db,            \* the module-level name db
    measurements,  \* the module-level dict measurements
    vi,            \* position of the outer loop in variants
    n,             \* iterations of the inner loop done for the current variant
    calls,         \* history of the subprocess.run calls that were launched
    returncode,    \* <<rc>> when the last step launched a child that exited with rc,
                   \* << >> otherwise (the CompletedProcess is dropped at once)
    stdout,        \* the means printed so far: <<variant, sum, len>>
    file,          \* the output file dev/bench/<stamp>.json
    error,         \* the unhandled exception that ended the process, if any
    pc             \* position of the script

vars == << args, environ0, environ, envWrites, db, measurements, vi, n, calls,
           returncode, stdout, file, error, pc >>

NoFile == [exists |-> FALSE, opens |-> 0, dumps |-> 0, text |-> << >>, complete |-> FALSE]

Init ==
    /\ args \in [note : Notes, samples : (0 - MaxNegSamples)..MaxSamples, profile : BOOLEAN]
    /\ environ0 \in InitialEnvirons
    /\ environ = environ0
    /\ envWrites = 0
    /\ db = Unbound
    /\ measurements = << >>
    /\ vi = 1
    /\ n = 0
    /\ calls = << >>
    /\ returncode = << >>
    /\ stdout = << >>
    /\ file = NoFile
    /\ error = NoError
    /\ pc = "override"

Raise(type, at) ==
    /\ error' = [type |-> type, at |-> at]
    /\ pc' = "crashed"

(* ----------------------------- actions --------------------------------- *)

\* Variant of Override that retains the old value but leaves out the
\* assignment of "bench.db".
Override_NoSet ==
    /\ pc = "override"
    /\ db' = environ_get(environ, "DATABASE", DefaultDb)
    /\ pc' = "flamegraph"
    /\ returncode' = << >>
    /\ UNCHANGED << args, environ0, environ, envWrites, measurements, vi, n, calls, stdout, file, error >>

\* db = os.environ.get("DATABASE", "solutions.db"); os.environ["DATABASE"] = "bench.db"
Override ==
    /\ pc = "override"
    /\ db' = environ_get(environ, "DATABASE", DefaultDb)
    /\ environ' = environ_set(environ, "DATABASE", BenchDb)
    /\ envWrites' = envWrites + 1
    /\ pc' = "flamegraph"
    /\ returncode' = << >>
    /\ UNCHANGED << args, environ0, measurements, vi, n, calls, stdout, file, error >>

\* if args.profile: (false) ; measurements = {}
SkipProfile ==
    /\ pc = "flamegraph"
    /\ ~args.profile
    /\ measurements' = << >>
    /\ pc' = "for_v"
    /\ returncode' = << >>
    /\ UNCHANGED << args, environ0, environ, envWrites, db, vi, n, calls, stdout, file, error >>

\* Variant of Profile that times the profiling run and records it like a sample.
Profile_Counted ==
    /\ pc = "flamegraph"
    /\ args.profile
    /\ \E rc \in ExitCodes, dur \in Durations :
        /\ calls' = flamegraph(calls, HeavyVariant, environ)
        /\ returncode' = <<rc>>
        /\ measurements' = DictSet(<< >>, HeavyVariant, <<dur>>)
    /\ pc' = "for_v"
    /\ UNCHANGED << args, environ0, environ, envWrites, db, vi, n, stdout, file, error >>

\* if args.profile: flamegraph("2-100000-1-2") ; measurements = {}
\* subprocess.run without check=True returns whatever the exit status is.
Profile ==
    /\ pc = "flamegraph"
    /\ args.profile
    /\ \E rc \in ExitCodes :
        /\ calls' = flamegraph(calls, HeavyVariant, environ)
        /\ returncode' = <<rc>>
    /\ measurements' = << >>
    /\ pc' = "for_v"
    /\ UNCHANGED << args, environ0, environ, envWrites, db, vi, n, stdout, file, error >>

\* subprocess.run raises when the executable cannot be started.
ProfileRaise ==
    /\ pc = "flamegraph"
    /\ args.profile
    /\ Raise("FileNotFoundError", "flamegraph")
    /\ returncode' = << >>
    /\ UNCHANGED << args, environ0, environ, envWrites, db, measurements, vi, n, calls, stdout, file >>

\* for v in variants: measurements[v] = [] ; for _ in range(samples):
ForVariant ==
    /\ pc = "for_v"
    /\ vi <= Len(variants)
    /\ measurements' = DictSet(measurements, variants[vi], << >>)
    /\ n' = 0
    /\ pc' = "for_n"
    /\ returncode' = << >>
    /\ UNCHANGED << args, environ0, environ, envWrites, db, vi, calls, stdout, file, error >>

\* Variant of Sample whose loop runs once more: range(samples + 1).
Sample_OffByOne ==
    /\ pc = "for_n"
    /\ n <= args.samples
    /\ \E rc \in ExitCodes, dur \in Durations :
        /\ calls' = solve_zero_by(calls, variants[vi], environ, dur)
        /\ returncode' = <<rc>>
        /\ measurements' = DictSet(measurements, variants[vi],
                                   Append(DictGet(measurements, variants[vi]), dur))
    /\ n' = n + 1
    /\ UNCHANGED << args, environ0, environ, envWrites, db, vi, stdout, file, error, pc >>

\* Variant of Sample with subprocess.run(..., check=True): a non-zero exit
\* raises CalledProcessError and records nothing.
Sample_Checked ==
    /\ pc = "for_n"
    /\ n < args.samples
    /\ \E rc \in ExitCodes, dur \in Durations :
        /\ calls' = solve_zero_by(calls, variants[vi], environ, dur)
        /\ returncode' = <<rc>>
        /\ IF rc = 0
           THEN /\ measurements' = DictSet(measurements, variants[vi],
                                           Append(DictGet(measurements, variants[vi]), dur))
                /\ n' = n + 1
                /\ UNCHANGED << error, pc >>
           ELSE /\ Raise("CalledProcessError", "solve_zero_by")
                /\ UNCHANGED << measurements, n >>
    /\ UNCHANGED << args, environ0, environ, envWrites, db, vi, stdout, file >>

\* start = time.time(); solve_zero_by(v); elapsed = time.time() - start;
\* measurements[v].append(elapsed)
Sample ==
    /\ pc = "for_n"
    /\ n < args.samples
    /\ \E rc \in ExitCodes, dur \in Durations :
        /\ calls' = solve_zero_by(calls, variants[vi], environ, dur)
        /\ returncode' = <<rc>>
        /\ measurements' = DictSet(measurements, variants[vi],
                                   Append(DictGet(measurements, variants[vi]), dur))
    /\ n' = n + 1
    /\ UNCHANGED << args, environ0, environ, envWrites, db, vi, stdout, file, error, pc >>

\* Variant of SampleRaise where the loop sits in try/finally and the finally
\* clause puts DATABASE back.
SampleRaise_Finally ==
    /\ pc = "for_n"
    /\ n < args.samples
    /\ Raise("FileNotFoundError", "solve_zero_by")
    /\ environ' = environ_set(environ, "DATABASE", db)
    /\ envWrites' = envWrites + 1
    /\ returncode' = << >>
    /\ UNCHANGED << args, environ0, db, measurements, vi, n, calls, stdout, file >>

\* solve_zero_by(v) raises: cargo cannot be started.
SampleRaise ==
    /\ pc = "for_n"
    /\ n < args.samples
    /\ Raise("FileNotFoundError", "solve_zero_by")
    /\ returncode' = << >>
    /\ UNCHANGED << args, environ0, environ, envWrites, db, measurements, vi, n, calls, stdout, file >>

RECURSIVE Sum(_)
Sum(s) == IF s = << >> THEN 0 ELSE s[1] + Sum(Tail(s))

\* Variant of PrintMean that also writes what has been measured so far to the
\* output file after each variant.
PrintMean_Flush ==
    /\ pc = "for_n"
    /\ n >= args.samples
    /\ LET m == DictGet(measurements, variants[vi]) IN
        /\ Len(m) # 0
        /\ stdout' = Append(stdout, <<variants[vi], Sum(m), Len(m)>>)
    /\ file' = [file EXCEPT !.exists = TRUE, !.text = JsonDump(measurements)]
    /\ vi' = vi + 1
    /\ pc' = "for_v"
    /\ returncode' = << >>
    /\ UNCHANGED << args, environ0, environ, envWrites, db, measurements, n, calls, error >>

\* m = measurements[v]; print(f"... {sum(m) / len(m)} seconds")
PrintMean ==
    /\ pc = "for_n"
    /\ n >= args.samples
    /\ LET m == DictGet(measurements, variants[vi]) IN
        /\ Len(m) # 0
        /\ stdout' = Append(stdout, <<variants[vi], Sum(m), Len(m)>>)
    /\ vi' = vi + 1
    /\ pc' = "for_v"
    /\ returncode' = << >>
    /\ UNCHANGED << args, environ0, environ, envWrites, db, measurements, n, calls, file, error >>

\* sum(m) / len(m) with an empty m
PrintMeanRaise ==
    /\ pc = "for_n"
    /\ n >= args.samples
    /\ Len(DictGet(measurements, variants[vi])) = 0
    /\ Raise("ZeroDivisionError", "mean")
    /\ returncode' = << >>
    /\ UNCHANGED << args, environ0, environ, envWrites, db, measurements, vi, n, calls, stdout, file >>

\* Variant of Restore where the assignment is placed after the with block:
\* control reaches the open with DATABASE still overridden.
Restore_AfterLogging ==
    /\ pc = "for_v"
    /\ vi > Len(variants)
    /\ pc' = "open"
    /\ returncode' = << >>
    /\ UNCHANGED << args, environ0, environ, envWrites, db, measurements, vi, n, calls, stdout, file, error >>

\* (loop over variants exhausted) os.environ["DATABASE"] = db
Restore ==
    /\ pc = "for_v"
    /\ vi > Len(variants)
    /\ environ' = environ_set(environ, "DATABASE", db)
    /\ envWrites' = envWrites + 1
    /\ pc' = "open"
    /\ returncode' = << >>
    /\ UNCHANGED << args, environ0, db, measurements, vi, n, calls, stdout, file, error >>

\* now = ...; stamp = ...; with open(f"dev/bench/{stamp}.json", "w") as f:
Open ==
    /\ pc = "open"
    /\ file' = [file EXCEPT !.exists = TRUE, !.opens = @ + 1, !.text = << >>, !.complete = FALSE]
    /\ pc' = "note"
    /\ returncode' = << >>
    /\ UNCHANGED << args, environ0, environ, envWrites, db, measurements, vi, n, calls, stdout, error >>

\* open raises: dev/bench/ is missing or not writable
OpenRaise ==
    /\ pc = "open"
    /\ file' = [file EXCEPT !.opens = @ + 1]
    /\ Raise("OSError", "open")
    /\ returncode' = << >>
    /\ UNCHANGED << args, environ0, environ, envWrites, db, measurements, vi, n, calls, stdout >>

\* Variant of InjectNote whose reserved key is the name of a variant.
InjectNote_Collide ==
    /\ pc = "note"
    /\ measurements' = DictSet(measurements, variants[1], args.note)
    /\ pc' = "dump"
    /\ returncode' = << >>
    /\ UNCHANGED << args, environ0, environ, envWrites, db, vi, n, calls, stdout, file, error >>

\* measurements["note"] = args.note
InjectNote ==
    /\ pc = "note"
    /\ measurements' = DictSet(measurements, "note", args.note)
    /\ pc' = "dump"
    /\ returncode' = << >>
    /\ UNCHANGED << args, environ0, environ, envWrites, db, vi, n, calls, stdout, file, error >>

\* json.dump(measurements, f) ; the with block closes f
Dump ==
    /\ pc = "dump"
    /\ file' = [file EXCEPT !.text = JsonDump(measurements), !.dumps = @ + 1, !.complete = TRUE]
    /\ pc' = "done"
    /\ returncode' = << >>
    /\ UNCHANGED << args, environ0, environ, envWrites, db, measurements, vi, n, calls, stdout, error >>

\* json.dump raises part way (the device is full): a prefix has been written
DumpRaise ==
    /\ pc = "dump"
    /\ \E k \in 0..(Len(measurements) - 1) :
        file' = [file EXCEPT !.text = SubSeq(JsonDump(measurements), 1, k), !.dumps = @ + 1]
    /\ Raise("OSError", "dump")
    /\ returncode' = << >>
    /\ UNCHANGED << args, environ0, environ, envWrites, db, measurements, vi, n, calls, stdout >>

Next ==
    \/ Override
    \/ SkipProfile
    \/ Profile
    \/ ProfileRaise
    \/ ForVariant
    \/ Sample
    \/ SampleRaise
    \/ PrintMean
    \/ PrintMeanRaise
    \/ Restore
    \/ Open
    \/ OpenRaise
    \/ InjectNote
    \/ Dump
    \/ DumpRaise

Spec == Init /\ [][Next]_vars

(* --------------------- observations used by the claims ----------------- *)

VariantSet == {variants[j] : j \in 1..Len(variants)}

IsSolve(c) == c.cmd = "cargo run"

IsProfile(c) == c.cmd = "cargo flamegraph"

IsVacuum(c) == c.cmd = "sqlite3 bench.db VACUUM"

\* The counted invocations of the solver for variant v, in execution order.
SolveCalls(v) == SelectSeq(calls, LAMBDA c : IsSolve(c) /\ c.variant = v)

ProfileCalls == SelectSeq(calls, IsProfile)

AllSolveCalls == SelectSeq(calls, IsSolve)

Elapsed(s) == [j \in 1..Len(s) |-> s[j].elapsed]

Last(s) == s[Len(s)]

\* Control has left the sampling loop with every variant processed, or the
\* run died computing a mean.
SamplingOver ==
    \/ pc \in {"open", "note", "dump", "done"}
    \/ pc = "crashed" /\ error.at \in {"mean", "open", "dump"}

\* Every variant of the fixed sequence has exactly args.samples samples.
Complete ==
    \A v \in VariantSet :
        /\ v \in DictKeys(measurements)
        /\ Len(DictGet(measurements, v)) = args.samples

\* The samples of every variant are the measured times of its invocations,
\* in execution order.
InOrder ==
    \A v \in DictKeys(measurements) \ {"note"} :
        DictGet(measurements, v) = Elapsed(SolveCalls(v))

(* ------------------------------ claims --------------------------------- *)

\* C1: after a run that completes (sampling done, output written) the
\* DATABASE variable is in the state it had before the run, whether it was
\* set to a string or absent.
C1_Restored == pc = "done" => environ = environ0

\* C2 (as stated): for every integer sample count the parser accepts and
\* either value of profile, a run that gets through its sampling has, for
\* every variant, exactly that many samples.
C2_EveryCount == SamplingOver => Complete

\* C2 (amended): for every sample count >= 1 and either value of profile,
\* no mean computation fails, the samples of each variant are the measured
\* times of its invocations in execution order, never more than the sample
\* count, and once sampling is over every variant has exactly that many.
C2_PositiveCount ==
    args.samples >= 1 =>
        /\ error.type # "ZeroDivisionError"
        /\ InOrder
        /\ \A v \in DictKeys(measurements) \ {"note"} :
               Len(DictGet(measurements, v)) <= args.samples
        /\ SamplingOver => Complete

C2_Witness ==
    /\ pc = "done"
    /\ args.samples = 2
    /\ args.profile
    /\ DictGet(measurements, variants[4]) = <<2, 1>>

\* C3: the VACUUM of bench.db runs on every run, before the first solver
\* invocation (profiling or counted): the first subprocess launched is it.
C3_VacuumFirst == Len(calls) > 0 => IsVacuum(calls[1])

\* C4: an unhandled failure during sampling (launching the solver, or
\* computing a mean) ends the process at once: no output file was opened or
\* exists, DATABASE is still "bench.db" (written once), nothing runs after.
C4_SamplingFailure ==
    error.at \in {"solve_zero_by", "mean"} =>
        /\ pc = "crashed"
        /\ ~file.exists
        /\ file.opens = 0
        /\ environ = [k \in {"DATABASE"} |-> BenchDb]
        /\ envWrites = 1
        /\ ~ENABLED Next

C4_Witness ==
    /\ pc = "crashed"
    /\ error.at = "solve_zero_by"
    /\ environ0 = [k \in {"DATABASE"} |-> "prod.db"]
    /\ Len(calls) > 2

\* C5: a counted solver invocation that exits non-zero (or is killed) raises
\* nothing and is not retried: the step launches that one process, appends
\* exactly one sample, its measured time, to its variant, and goes on to the
\* next repetition; nothing else changes, so the rest of the run (up to the
\* writing of the output) is the one that follows a successful invocation.
C5_FailureTolerated ==
    [][ (calls' # calls /\ IsSolve(Last(calls')) /\ returncode' # <<0>>) =>
            /\ Len(calls') = Len(calls) + 1
            /\ SubSeq(calls', 1, Len(calls)) = calls
            /\ Last(calls').variant = variants[vi]
            /\ n' = n + 1
            /\ DictGet(measurements', variants[vi]) =
                   Append(DictGet(measurements, variants[vi]), Last(calls').elapsed)
            /\ Len(measurements') = Len(measurements)
            /\ Len(SelectSeq(calls', LAMBDA c : IsSolve(c) /\ c.variant = variants[vi])) =
                   Len(DictGet(measurements', variants[vi]))
            /\ UNCHANGED << args, environ0, environ, envWrites, db, vi, stdout, file, error, pc >> ]_vars

\* The second invocation for the second variant was killed by a signal; its
\* time is recorded and the loop is at its next repetition.
C5_Witness ==
    /\ pc = "for_n"
    /\ error = NoError
    /\ returncode = <<0 - 11>>
    /\ vi = 2
    /\ n = 2
    /\ Len(DictGet(measurements, variants[2])) = 2
    /\ Len(SolveCalls(variants[2])) = 2

\* C6: with profile set, once the profiling step is passed exactly one
\* profiling invocation has occurred, for "2-100000-1-2", and it is the first
\* subprocess of the run (before any counted sample); without profile there
\* is none.  It adds nothing to measurements: no key for its variant, and
\* the number of samples equals the number of counted invocations.
C6_ProfileOnce ==
    /\ Len(ProfileCalls) <= 1
    /\ ~args.profile => Len(ProfileCalls) = 0
    /\ (args.profile /\ pc \notin {"override", "flamegraph"} /\ error.at # "flamegraph") =>
           /\ Len(ProfileCalls) = 1
           /\ IsProfile(calls[1])
           /\ calls[1].variant = HeavyVariant
    /\ HeavyVariant \notin DictKeys(measurements)
    /\ DictKeys(measurements) \subseteq VariantSet \cup {"note"}
    /\ \A v \in DictKeys(measurements) \ {"note"} :
           Len(DictGet(measurements, v)) = Len(SolveCalls(v))

C6_Witness ==
    /\ args.profile
    /\ pc = "done"
    /\ Len(calls) = 1 + Len(variants) * args.samples

\* C7: the output file is opened and dumped at most once; whenever it exists,
\* has been opened or holds any text, every variant has been sampled in full
\* and all counted invocations are over; a finished run has written it once,
\* completely.
C7_WrittenOnceAtEnd ==
    /\ file.opens <= 1
    /\ file.dumps <= 1
    /\ (file.exists \/ file.opens > 0 \/ Len(file.text) > 0) =>
           /\ vi > Len(variants)
           /\ Complete
           /\ Len(AllSolveCalls) = Len(variants) * args.samples
    /\ pc = "done" =>
           /\ file.exists
           /\ file.complete
           /\ file.opens = 1
           /\ file.dumps = 1

C7_Witness ==
    /\ pc = "done"
    /\ file.complete
    /\ args.samples = 2

\* C8 (as stated): when writing the output fails, DATABASE has not been
\* restored to its value from before the run.  (A run started with DATABASE
\* already "bench.db" is left out: there the override changes nothing.)
C8_NotRestored ==
    (pc = "crashed" /\ error.at \in {"open", "dump"}
        /\ environ0 # [k \in {"DATABASE"} |-> BenchDb]) => environ # environ0

\* C8 (amended): when writing the output fails (open or dump), the run ends
\* at once, the file was opened once and dumped at most once (no retry) and
\* is not complete, and DATABASE has already been set back to the retained
\* value db (its value before the run, or "solutions.db" if it was unset).
C8_RestoredBeforeWrite ==
    error.at \in {"open", "dump"} =>
        /\ pc = "crashed"
        /\ ~ENABLED Next
        /\ file.opens = 1
        /\ file.dumps <= 1
        /\ ~file.complete
        /\ envWrites = 2
        /\ db = environ_get(environ0, "DATABASE", DefaultDb)
        /\ environ = [k \in {"DATABASE"} |-> db]

C8_Witness ==
    /\ pc = "crashed"
    /\ error.at = "open"
    /\ environ0 = [k \in {"DATABASE"} |-> "prod.db"]
    /\ environ = environ0

\* C9: the record a finished run wrote has exactly the variants and "note"
\* as keys (one member each), "note" holds the note given, and every variant
\* still holds the measured times of its invocations.
C9_RecordKeys ==
    pc = "done" =>
        /\ JsonKeys(file.text) = VariantSet \cup {"note"}
        /\ Len(file.text) = Len(variants) + 1
        /\ JsonValue(file.text, "note") = args.note
        /\ \A v \in VariantSet :
               /\ JsonValue(file.text, v) = Elapsed(SolveCalls(v))
               /\ Len(JsonValue(file.text, v)) = args.samples

C9_Witness ==
    /\ pc = "done"
    /\ args.note = "baseline v1"
    /\ JsonValue(file.text, "note") = "baseline v1"
    /\ JsonValue(file.text, variants[1]) = <<1, 2>>

\* C10: DATABASE is assigned at most twice, every subprocess inherits
\* DATABASE = "bench.db", and every launch happens after the first
\* assignment (the override) and before the second (the restore).
C10_IsolatedCalls ==
    /\ [](/\ envWrites <= 2
          /\ \A j \in 1..Len(calls) : calls[j].env = [k \in {"DATABASE"} |-> BenchDb])
    /\ [][calls' # calls => (envWrites = 1 /\ envWrites' = 1)]_vars

C10_Witness ==
    /\ pc = "done"
    /\ envWrites = 2
    /\ args.profile
    /\ environ0 = [k \in {"DATABASE"} |-> "prod.db"]
    /\ Len(calls) > Len(variants)

====
